---------------------------- MODULE Spec2Model ----------------------------
(***************************************************************************)
(* A model of the egui -> skia painter of src/src/egui_skia.rs: the        *)
(* texture cache (Painter::paints), the canvas state the painter changes   *)
(* (matrix, clip, save stack), the mesh pipeline (split_to_u16,            *)
(* split_texture_meshes, paint_mesh) and the frame runner that feeds it.   *)
(*                                                                         *)
(* Geometry is kept on the x axis only: every transform the painter sets   *)
(* is a uniform scale or a translation, applied alike to x and y.          *)
(***************************************************************************)
EXTENDS Integers, Sequences, FiniteSets, TLC

VARIABLES
    cpu_fix,    \* the "cpu_fix" cargo feature of the build
    paints,     \* Painter::paints: TextureId -> PaintHandle (a partial map)
    canvas,     \* the skia canvas: [matrix, clip, stack]
    pc,         \* position inside paint_and_update_textures, or "idle"
    call,       \* arguments and loop positions of the running paint call
    draws,      \* draw calls issued by the running / last paint call
    err,        \* "none", or the panic that ended the process
    pending,    \* the frame runner's pending shapes and texture delta
    last,       \* the last TextureCache operation: inputs, prior entries
    col         \* a vertex color and its straight-alpha conversion

vars == <<cpu_fix, paints, canvas, pc, call, draws, err, pending, last, col>>

----------------------------------------------------------------------------
(* Bounds of the model *)

\* alpha (and channel) resolution of texture pixels: MaxA stands for 255
MaxA == 2
\* largest width and height of an uploaded image or patch
MaxDim == 4

----------------------------------------------------------------------------
(* Pixels and images (skia N32 premultiplied rasters) *)

\* a premultiplied pixel <<c, a>>: one color channel c <= a, alpha a
Transparent == <<0, 0>>
HalfWhite == <<1, 1>>
Red == <<0, MaxA>>
White == <<MaxA, MaxA>>
Palette == {Transparent, HalfWhite, Red, White}
PaletteSeq == <<Transparent, HalfWhite, Red, White>>

Coords(w, h) == (0 .. w - 1) \X (0 .. h - 1)

\* images::raster_from_data over a ColorImage of one color
Uniform(w, h, p) == [w |-> w, h |-> h, px |-> [xy \in Coords(w, h) |-> p]]

\* images::raster_from_data over a ColorImage whose pixels differ by position
Gradient(w, h) ==
    [w |-> w, h |-> h,
     px |-> [xy \in Coords(w, h) |-> PaletteSeq[((xy[1] + 2 * xy[2]) % 4) + 1]]]

\* the ColorImages the GUI library hands over (width, height >= 1)
Images(maxdim) ==
    {Uniform(w, h, p) : w \in 1 .. maxdim, h \in 1 .. maxdim, p \in Palette}
        \cup {Gradient(w, h) : w \in 1 .. maxdim, h \in 1 .. maxdim}

\* SkBlendMode::kSrcOver on premultiplied pixels (Canvas::draw_image, paint None)
SrcOver(s, d) ==
    <<s[1] + (d[1] * (MaxA - s[2])) \div MaxA, s[2] + (d[2] * (MaxA - s[2])) \div MaxA>>

\* surfaces::raster_n32_premul: a zero-initialised surface
NewSurface(w, h) == Uniform(w, h, Transparent)

\* a device clip rectangle [x0, x1) x [y0, y1) of a raster canvas
InRect(xy, r) == r.x0 <= xy[1] /\ xy[1] < r.x1 /\ r.y0 <= xy[2] /\ xy[2] < r.y1

WholeSurface(s) == [x0 |-> 0, y0 |-> 0, x1 |-> s.w, y1 |-> s.h]

\* Canvas::draw_image(img, (x, y), None) under clip
DrawImage(s, img, x, y, clip) ==
    [s EXCEPT !.px =
        [xy \in Coords(s.w, s.h) |->
            IF InRect(xy, clip) /\ <<xy[1] - x, xy[2] - y>> \in Coords(img.w, img.h)
            THEN SrcOver(img.px[<<xy[1] - x, xy[2] - y>>], s.px[xy])
            ELSE s.px[xy]]]

\* Canvas::clear(color) under clip: replaces, does not blend
Clear(s, p, clip) ==
    [s EXCEPT !.px = [xy \in Coords(s.w, s.h) |-> IF InRect(xy, clip) THEN p ELSE s.px[xy]]]

----------------------------------------------------------------------------
(* The texture cache *)

TextureIds == {"A", "B"}

\* egui::epaint::ImageDelta: pos = <<>> is None (a full image)
FullDelta(img) == [image |-> img, pos |-> <<>>]
PatchDelta(img, x, y) == [image |-> img, pos |-> <<x, y>>]

\* the clip rectangle of a patch
PatchRect(pos, img) ==
    [x0 |-> pos[1], y0 |-> pos[2], x1 |-> pos[1] + img.w, y1 |-> pos[2] + img.h]

\* PatchedImage without the clear: the patch blends with the old pixels
PatchedImageNoClear(old_image, pos, delta_image) ==
    LET surface == NewSurface(old_image.w, old_image.h)
        s1 == DrawImage(surface, old_image, 0, 0, WholeSurface(surface))
    IN  DrawImage(s1, delta_image, pos[1], pos[2], PatchRect(pos, delta_image))

\* set_texture, Some(pos) arm: the old image with the patch composited in
PatchedImage(old_image, pos, delta_image) ==
    LET surface == NewSurface(old_image.w, old_image.h)
        s1 == DrawImage(surface, old_image, 0, 0, WholeSurface(surface))
        clip == PatchRect(pos, delta_image)
        s2 == Clear(s1, Transparent, clip)
    IN  DrawImage(s2, delta_image, pos[1], pos[2], clip)

\* the shader-backed paint built from an image
PaintOf(image) == [shader |-> <<image.w, image.h>>, color |-> "WHITE"]

\* paints.insert(tex_id, PaintHandle { paint, image })
Insert(p, tex_id, image) ==
    [t \in DOMAIN p \cup {tex_id} |->
        IF t = tex_id THEN [paint |-> PaintOf(image), image |-> image] ELSE p[t]]

\* set_texture with a patch creating the entry of a handle that has none
set_texture_creating(p, tex_id, image_delta) ==
    IF image_delta.pos = <<>> \/ tex_id \notin DOMAIN p
    THEN [paints |-> Insert(p, tex_id, image_delta.image), err |-> "none"]
    ELSE [paints |-> Insert(p, tex_id,
                            PatchedImage(p[tex_id].image, image_delta.pos, image_delta.image)),
          err |-> "none"]

\* set_texture: the new paints map, and the panic if it panics. A patch of a
\* handle with no entry panics on paints.remove(&tex_id).unwrap(), before
\* anything is inserted.
set_texture(p, tex_id, image_delta) ==
    IF image_delta.pos = <<>>
    THEN [paints |-> Insert(p, tex_id, image_delta.image), err |-> "none"]
    ELSE IF tex_id \notin DOMAIN p
    THEN [paints |-> p, err |-> "MissingTextureForPatch"]
    ELSE [paints |-> Insert(p, tex_id,
                            PatchedImage(p[tex_id].image, image_delta.pos, image_delta.image)),
          err |-> "none"]

\* free_texture dropping every entry
free_texture_clear(p, tex_id) == [t \in {} |-> 0]

\* free_texture leaving the entry in place
free_texture_noop(p, tex_id) == p

\* free_texture: paints.remove(&tex_id)
free_texture(p, tex_id) == [t \in DOMAIN p \ {tex_id} |-> p[t]]

EmptyMap == [t \in {} |-> 0]


----------------------------------------------------------------------------
(* The canvas: matrix x -> s * x + t, device clip interval, save stack *)

Max(a, b) == IF a >= b THEN a ELSE b
Min(a, b) == IF a <= b THEN a ELSE b

\* intersection of two device intervals; every empty interval is <<0, 0>>
Intersect(a, b) ==
    LET lo == Max(a[1], b[1])
        hi == Min(a[2], b[2])
    IN  IF lo < hi THEN <<lo, hi>> ELSE <<0, 0>>

\* a local rectangle <<min, max>> in device coordinates under matrix m
Device(m, r) == <<m.s * r[1] + m.t, m.s * r[2] + m.t>>

\* Canvas::set_matrix(M44::new_identity().set_scale(dpi, dpi, 1.0))
SetScale(c, dpi) == [c EXCEPT !.matrix = [s |-> dpi, t |-> 0]]

\* Canvas::translate
Translate(c, d) == [c EXCEPT !.matrix.t = c.matrix.t + c.matrix.s * d]

\* Canvas::clip_rect(rect, ClipOp::Intersect, _)
ClipRect(c, r) == [c EXCEPT !.clip = Intersect(c.clip, Device(c.matrix, r))]

\* AutoCanvasRestore::guard(canvas, true): Canvas::save
Save(c) == [c EXCEPT !.stack = Append(c.stack, [matrix |-> c.matrix, clip |-> c.clip])]

\* a guard whose drop restores nothing
RestoreNoop(c) == c

\* drop of the AutoRestoredCanvas: Canvas::restore_to_count
Restore(c) ==
    LET top == c.stack[Len(c.stack)]
    IN  [matrix |-> top.matrix, clip |-> top.clip, stack |-> SubSeq(c.stack, 1, Len(c.stack) - 1)]

----------------------------------------------------------------------------
(* Vertex colors: paint_mesh's premultiplied -> straight conversion *)

\* f32 values are kept as "nan", "inf" or the quotient n / d of two naturals

\* cf.r /= cf.a on Color4f channels r / 255 and a / 255 (IEEE division)
FDiv(r, a) ==
    IF a = 0
    THEN (IF r = 0 THEN [k |-> "nan", n |-> 0, d |-> 1] ELSE [k |-> "inf", n |-> 0, d |-> 1])
    ELSE [k |-> "fin", n |-> r, d |-> a]

\* (x * 255.0) as u8: Rust's saturating float -> int cast, NaN -> 0.
\* On the channel values enumerated here the f32 result is the integer quotient.
ToU8(x) ==
    CASE x.k = "nan" -> 0
      [] x.k = "inf" -> 255
      [] OTHER -> Min(255, (x.n * 255) \div x.d)

\* a color is <<r, g, b, a>>; Color::from_argb(c.a(), r', g', b')
straight_color(c) ==
    <<ToU8(FDiv(c[1], c[4])), ToU8(FDiv(c[2], c[4])), ToU8(FDiv(c[3], c[4])), c[4]>>

OpaqueWhite == <<255, 255, 255, 255>>

----------------------------------------------------------------------------
(* Meshes: [texture_id, vertices, indices], indices 0-based as in the code *)

\* u16 has IndexWidth values: IndexWidth stands for 65536
IndexWidth == 3

ZeroUV(v) == v.uv[1] = 0 /\ v.uv[2] = 0

EmptyMesh(tex) == [texture_id |-> tex, vertices |-> <<>>, indices |-> <<>>]

SeqMin(q) == CHOOSE x \in {q[i] : i \in 1 .. Len(q)} : \A j \in 1 .. Len(q) : x <= q[j]
SeqMax(q) == CHOOSE x \in {q[i] : i \in 1 .. Len(q)} : \A j \in 1 .. Len(q) : x >= q[j]

\* Mesh::split_to_u16, inner loop: the index cursor after taking every whole
\* triangle that keeps the vertex span within IndexWidth
RECURSIVE SpanEnd(_, _, _)
SpanEnd(indices, start, cursor) ==
    IF cursor + 2 > Len(indices)
    THEN cursor
    ELSE LET taken == SubSeq(indices, start, cursor + 2)
         IN  IF SeqMax(taken) - SeqMin(taken) + 1 <= IndexWidth
             THEN SpanEnd(indices, start, cursor + 3)
             ELSE cursor

\* Mesh::split_to_u16, outer loop from index cursor `start`
RECURSIVE SplitFrom(_, _)
SplitFrom(mesh, start) ==
    IF start > Len(mesh.indices)
    THEN <<>>
    ELSE LET stop == SpanEnd(mesh.indices, start, start)
             span == SubSeq(mesh.indices, start, stop - 1)
             lo == SeqMin(span)
             hi == SeqMax(span)
             run == [texture_id |-> mesh.texture_id,
                     vertices |-> SubSeq(mesh.vertices, lo + 1, hi + 1),
                     indices |-> [i \in 1 .. Len(span) |-> span[i] - lo]]
         IN  <<run>> \o SplitFrom(mesh, stop)

\* Mesh::split_to_u16: a mesh that fits the index width is passed through
split_to_u16(mesh) ==
    IF Len(mesh.vertices) <= IndexWidth THEN <<mesh>> ELSE SplitFrom(mesh, 1)

\* the loop iteration pushing the index of the source mesh, not a local one
SplitStepGlobalIndex(mesh, acc, index) ==
    LET vertex == mesh.vertices[index + 1]
        is_current_zero == ZeroUV(vertex)
        known == IF acc.is_zero = <<>> THEN is_current_zero ELSE acc.is_zero[1]
        meshes == IF is_current_zero # known
                  THEN Append(acc.meshes, EmptyMesh(mesh.texture_id))
                  ELSE acc.meshes
        lastm == meshes[Len(meshes)]
        pushed == [lastm EXCEPT
                    !.vertices = Append(lastm.vertices, vertex),
                    !.indices = Append(lastm.indices, index)]
    IN  [meshes |-> [meshes EXCEPT ![Len(meshes)] = pushed],
         is_zero |-> <<is_current_zero>>]

\* split_texture_meshes, one loop iteration: acc = [meshes, is_zero], where
\* is_zero is <<>> (None) or <<b>> (Some(b))
SplitStep(mesh, acc, index) ==
    LET vertex == mesh.vertices[index + 1]
        is_current_zero == ZeroUV(vertex)
        known == IF acc.is_zero = <<>> THEN is_current_zero ELSE acc.is_zero[1]
        meshes == IF is_current_zero # known
                  THEN Append(acc.meshes, EmptyMesh(mesh.texture_id))
                  ELSE acc.meshes
        lastm == meshes[Len(meshes)]
        pushed == [lastm EXCEPT
                    !.vertices = Append(lastm.vertices, vertex),
                    !.indices = Append(lastm.indices, Len(lastm.indices) % IndexWidth)]
    IN  [meshes |-> [meshes EXCEPT ![Len(meshes)] = pushed],
         is_zero |-> IF is_current_zero # known \/ acc.is_zero = <<>>
                     THEN <<is_current_zero>>
                     ELSE acc.is_zero]

RECURSIVE SplitLoop(_, _, _)
SplitLoop(mesh, acc, k) ==
    IF k > Len(mesh.indices)
    THEN acc
    ELSE SplitLoop(mesh, SplitStep(mesh, acc, mesh.indices[k]), k + 1)

\* split_texture_meshes (feature cpu_fix)
split_texture_meshes(mesh) ==
    SplitLoop(mesh, [meshes |-> <<EmptyMesh(mesh.texture_id)>>, is_zero |-> <<>>], 1).meshes

RECURSIVE FlatMap(_)
FlatMap(meshes) ==
    IF meshes = <<>> THEN <<>> ELSE split_texture_meshes(Head(meshes)) \o FlatMap(Tail(meshes))

\* the meshes a mesh primitive is drawn as (paint_and_update_textures, Mesh arm)
MeshesOf(fix, mesh) ==
    IF fix THEN FlatMap(split_to_u16(mesh)) ELSE split_to_u16(mesh)

\* use_white_workaround looking at the first vertex's u alone
use_white_workaround_u(fix, mesh) ==
    IF fix
    THEN ~(IF mesh.vertices = <<>> THEN FALSE ELSE mesh.vertices[1].uv[1] # 0)
    ELSE FALSE

\* paint_mesh: whether the white paint replaces the texture's paint
use_white_workaround(fix, mesh) ==
    IF fix
    THEN ~(IF mesh.vertices = <<>> THEN FALSE ELSE ~ZeroUV(mesh.vertices[1]))
    ELSE FALSE

\* paint_mesh on painter state st = [canvas, log, err] with cache p: clip, pick
\* the paint (indexing paints panics for an unknown handle), draw
paint_mesh(st, p, fix, k, skclip_rect, mesh) ==
    LET c1 == ClipRect(st.canvas, skclip_rect)
        white == use_white_workaround(fix, mesh)
        found == mesh.texture_id \in DOMAIN p
        entry == [kind |-> "mesh", prim |-> k, texture_id |-> mesh.texture_id,
                  white |-> white, lookup |-> ~white, drawn |-> white \/ found,
                  cached |-> DOMAIN p,
                  first_uv |-> IF mesh.vertices = <<>> THEN <<>> ELSE <<mesh.vertices[1].uv>>,
                  nverts |-> Len(mesh.vertices), indices |-> mesh.indices,
                  colors |-> [i \in 1 .. Len(mesh.vertices) |->
                                 straight_color(mesh.vertices[i].color)],
                  clip |-> c1.clip, m_clip |-> st.canvas.matrix, matrix |-> c1.matrix]
    IN  [canvas |-> c1, log |-> Append(st.log, entry),
         err |-> IF white \/ found THEN "none" ELSE "UnknownTexture"]

\* for mesh in &meshes { self.paint_mesh(..) }: stops at the first panic
RECURSIVE PaintMeshes(_, _, _, _, _, _)
PaintMeshes(st, p, fix, k, skclip_rect, meshes) ==
    IF meshes = <<>> \/ st.err # "none"
    THEN st
    ELSE PaintMeshes(paint_mesh(st, p, fix, k, skclip_rect, Head(meshes)),
                     p, fix, k, skclip_rect, Tail(meshes))

\* Primitive::Mesh arm: set_matrix, guard, paint every mesh; the guard's drop
\* restores the canvas (also when a panic unwinds)
PaintMeshPrimitive(st, p, fix, dpi, k, prim) ==
    LET c1 == SetScale(st.canvas, dpi)
        arc == Save(c1)
        done == PaintMeshes([st EXCEPT !.canvas = arc], p, fix, k, prim.clip_rect,
                            MeshesOf(fix, prim.mesh))
    IN  [done EXCEPT !.canvas = Restore(done.canvas)]

\* Primitive::Callback arm: record into skia_rect, guard, clip, translate, replay
PaintCallbackPrimitive(st, p, dpi, k, prim) ==
    LET skia_rect == <<prim.rect[1] * dpi, prim.rect[2] * dpi>>
        arc == Save(st.canvas)
        c1 == ClipRect(arc, prim.clip_rect)
        c2 == Translate(c1, prim.rect[1])
        entry == [kind |-> "callback", prim |-> k, texture_id |-> "A",
                  white |-> FALSE, lookup |-> FALSE, drawn |-> TRUE,
                  cached |-> DOMAIN p, first_uv |-> <<>>,
                  nverts |-> 0, indices |-> <<>>, colors |-> <<>>,
                  clip |-> c2.clip, m_clip |-> arc.matrix, matrix |-> c2.matrix]
    IN  [canvas |-> Restore(c2), log |-> Append(st.log, entry), err |-> "none"]

\* the body of `for primitive in primitives` for primitive number k
PaintPrimitive(st, p, fix, dpi, k, prim) ==
    IF prim.kind = "mesh"
    THEN PaintMeshPrimitive(st, p, fix, dpi, k, prim)
    ELSE PaintCallbackPrimitive(st, p, dpi, k, prim)

----------------------------------------------------------------------------
(* Values of the variables before anything happened *)

SeqsUpTo(S, n) == UNION {[1 .. k -> S] : k \in 0 .. n}

NoDelta == [set |-> <<>>, free |-> <<>>]
\* the caller's canvas: identity matrix, clip = the whole surface, no saves
CanvasW == 8
NewCanvas == [matrix |-> [s |-> 1, t |-> 0], clip |-> <<0, CanvasW>>, stack |-> <<>>]
NoCall == [delta |-> NoDelta, prims |-> <<>>, dpi |-> 1, i |-> 0, before |-> EmptyMap,
           canvas0 |-> NewCanvas, log |-> <<>>]
NoPending == [shapes |-> <<>>, textures_delta |-> NoDelta, log |-> <<>>]
NoLast == [op |-> "none", tex |-> "A", delta |-> FullDelta(Uniform(1, 1, Transparent)),
           prior |-> EmptyMap, freed |-> {}]
NoCol == [phase |-> "off", c |-> <<0, 0, 0, 0>>, out |-> <<0, 0, 0, 0>>]

\* Painter::new(), an idle frame runner, a fresh canvas
Start ==
    /\ paints = EmptyMap
    /\ canvas = NewCanvas
    /\ pc = "idle"
    /\ call = NoCall
    /\ draws = <<>>
    /\ err = "none"
    /\ pending = NoPending
    /\ last = NoLast

\* the record of a set_texture call; a handle counts as freed until a full
\* image is uploaded for it
LastAfterUpload(tex_id, image_delta) ==
    [op |-> IF image_delta.pos = <<>> THEN "full" ELSE "patch",
     tex |-> tex_id, delta |-> image_delta, prior |-> paints,
     freed |-> IF image_delta.pos = <<>> THEN last.freed \ {tex_id} ELSE last.freed]

LastAfterFree(tex_id) ==
    [op |-> "free", tex |-> tex_id, delta |-> NoLast.delta, prior |-> paints,
     freed |-> last.freed \cup {tex_id}]

----------------------------------------------------------------------------
(* SpecCache: TextureCache.upload applied to one handle: an image, then a  *)
(* patch of it, or a patch with no image before it                         *)

InitCache == cpu_fix = FALSE /\ Start /\ col = NoCol

\* upload(handle, patch): one call of set_texture
Upload(tex_id, image_delta) ==
    /\ err = "none"
    /\ pc = "idle"
    /\ last' = LastAfterUpload(tex_id, image_delta)
    /\ paints' = set_texture(paints, tex_id, image_delta).paints
    /\ err' = set_texture(paints, tex_id, image_delta).err
    /\ UNCHANGED <<cpu_fix, canvas, pc, call, draws, pending, col>>

Positions == (0 .. MaxDim - 1) \X (0 .. MaxDim - 1)

UploadFull ==
    /\ last.op = "none"
    /\ \E img \in Images(MaxDim) : Upload("A", FullDelta(img))

\* patches are applied to an entry that holds an uploaded image, or to no entry
UploadPatch ==
    /\ last.op \in {"none", "full"}
    /\ \E img \in Images(MaxDim), pos \in Positions : Upload("A", PatchDelta(img, pos[1], pos[2]))

NextCache == UploadFull \/ UploadPatch

SpecCache == InitCache /\ [][NextCache]_vars

----------------------------------------------------------------------------
(* paint_and_update_textures, one step per loop iteration *)

\* the three loops with the frees ahead of the primitives
PhaseAfterFreeFirst(phase) ==
    CASE phase = "set" -> "free"
      [] phase = "free" -> "prims"
      [] OTHER -> "done"

\* the order of the three loops of paint_and_update_textures
PhaseAfter(phase) ==
    CASE phase = "set" -> "prims"
      [] phase = "prims" -> "free"
      [] OTHER -> "done"

PhaseLen(phase, c) ==
    CASE phase = "set" -> Len(c.delta.set)
      [] phase = "prims" -> Len(c.prims)
      [] phase = "free" -> Len(c.delta.free)
      [] OTHER -> 1

\* the next loop that has an iteration to run, from `phase` on
RECURSIVE Enter(_, _)
Enter(phase, c) ==
    IF PhaseLen(phase, c) > 0 THEN phase ELSE Enter(PhaseAfter(phase), c)

\* after iteration call.i of the running loop
Advance ==
    IF call.i < PhaseLen(pc, call)
    THEN pc' = pc /\ call' = [call EXCEPT !.i = call.i + 1]
    ELSE pc' = Enter(PhaseAfter(pc), call) /\ call' = [call EXCEPT !.i = 1]

\* entry of paint_and_update_textures(canvas, dpi, primitives, textures_delta)
PaintBegin(primitives, textures_delta, dpi, runs) ==
    /\ pc = "idle"
    /\ err = "none"
    /\ call' = [delta |-> textures_delta, prims |-> primitives, dpi |-> dpi, i |-> 1,
                before |-> paints, canvas0 |-> canvas, log |-> runs]
    /\ pc' = Enter("set", call')
    /\ draws' = <<>>
    /\ UNCHANGED <<cpu_fix, paints, canvas, err, last, col>>

\* textures_delta.set.iter().for_each(|(id, image_delta)| self.set_texture(..))
SetTextureStep ==
    /\ pc = "set"
    /\ LET e == call.delta.set[call.i]
           r == set_texture(paints, e.id, e.delta)
       IN  /\ paints' = r.paints
           /\ err' = r.err
           /\ last' = LastAfterUpload(e.id, e.delta)
           /\ IF r.err = "none" THEN Advance ELSE pc' = "panicked" /\ call' = call
    /\ UNCHANGED <<cpu_fix, canvas, draws, pending, col>>

\* for primitive in primitives { .. }
PrimitiveStep ==
    /\ pc = "prims"
    /\ LET st == PaintPrimitive([canvas |-> canvas, log |-> draws, err |-> "none"],
                                paints, cpu_fix, call.dpi, call.i, call.prims[call.i])
       IN  /\ canvas' = st.canvas
           /\ draws' = st.log
           /\ err' = st.err
           /\ IF st.err = "none" THEN Advance ELSE pc' = "panicked" /\ call' = call
    /\ UNCHANGED <<cpu_fix, paints, pending, last, col>>

\* textures_delta.free.iter().for_each(|id| self.free_texture(*id))
FreeTextureStep ==
    /\ pc = "free"
    /\ paints' = free_texture(paints, call.delta.free[call.i])
    /\ last' = LastAfterFree(call.delta.free[call.i])
    /\ Advance
    /\ UNCHANGED <<cpu_fix, canvas, draws, err, pending, col>>

\* paint_and_update_textures returns: its arguments and locals are gone
PaintReturn ==
    /\ pc = "done"
    /\ pc' = "idle"
    /\ call' = NoCall
    /\ draws' = <<>>
    /\ last' = [NoLast EXCEPT !.freed = last.freed]
    /\ UNCHANGED <<cpu_fix, paints, canvas, err, pending, col>>

PaintSteps == SetTextureStep \/ PrimitiveStep \/ FreeTextureStep \/ PaintReturn

----------------------------------------------------------------------------
(* Inputs *)

\* longest texture_delta.set, texture_delta.free and primitive list of a call
MaxSet == 2
MaxFree == 1
MaxPrims == 2
\* most vertices of a mesh and most triangles of its index list (SpecMesh)
MaxVerts == 5
MaxTris == 3
\* most run calls between two paints (SpecRunner)
MaxRuns == 2

Vertex(uv) == [uv |-> uv, color |-> OpaqueWhite]

Triangle(tex, uv1, uv2, uv3) ==
    [texture_id |-> tex, vertices |-> <<Vertex(uv1), Vertex(uv2), Vertex(uv3)>>,
     indices |-> <<0, 1, 2>>]

MeshPrim(clip_rect, mesh) ==
    [kind |-> "mesh", clip_rect |-> clip_rect, mesh |-> mesh, rect |-> <<0, 0>>]

CallbackPrim(clip_rect, rect) ==
    [kind |-> "callback", clip_rect |-> clip_rect, mesh |-> EmptyMesh("A"), rect |-> rect]

SetEntry(tex, image_delta) == [id |-> tex, delta |-> image_delta]

RedTexel == FullDelta(Uniform(1, 1, Red))
WhitePatch == PatchDelta(Uniform(1, 1, White), 0, 0)

Deltas(entries, ids) ==
    {[set |-> a, free |-> f] : a \in SeqsUpTo(entries, MaxSet), f \in SeqsUpTo(ids, MaxFree)}

----------------------------------------------------------------------------
(* Spec: the painter called with texture deltas and primitives *)

SetEntries == {SetEntry("A", RedTexel), SetEntry("A", WhitePatch), SetEntry("B", RedTexel)}

\* a textured triangle, and one that mixes textured and untextured vertices
Prims ==
    {MeshPrim(<<0, 4>>, Triangle("A", <<0, 1>>, <<1, 0>>, <<1, 1>>)),
     MeshPrim(<<0, 4>>, Triangle("B", <<0, 0>>, <<1, 1>>, <<0, 1>>))}

Init == cpu_fix \in BOOLEAN /\ Start /\ col = NoCol

PrimLists == SeqsUpTo(Prims, MaxPrims)
DeltaSet == Deltas(SetEntries, TextureIds)

\* a call of the painter by its owner
PaintCall ==
    /\ pc = "idle"
    /\ \E primitives \in PrimLists, textures_delta \in DeltaSet :
           PaintBegin(primitives, textures_delta, 1, <<>>)
    /\ UNCHANGED pending

Next == PaintCall \/ PaintSteps

Spec == Init /\ [][Next]_vars

----------------------------------------------------------------------------
(* SpecTexture: which paint a mesh is drawn with *)

\* a textured triangle, an untextured one, one that mixes both, an empty
\* mesh, and a callback
TexturePrims ==
    {MeshPrim(<<0, 4>>, Triangle("A", <<0, 1>>, <<1, 0>>, <<1, 1>>)),
     MeshPrim(<<0, 4>>, Triangle("A", <<0, 0>>, <<0, 0>>, <<0, 0>>)),
     MeshPrim(<<0, 4>>, Triangle("A", <<0, 0>>, <<1, 1>>, <<0, 1>>)),
     MeshPrim(<<0, 4>>, EmptyMesh("A")),
     CallbackPrim(<<0, 4>>, <<1, 3>>)}

TextureDeltas ==
    {[set |-> a, free |-> f] : a \in {<<>>, <<SetEntry("A", RedTexel)>>}, f \in {<<>>, <<"A">>}}

TexturePrimLists == SeqsUpTo(TexturePrims, MaxPrims)

PaintCallTexture ==
    /\ pc = "idle"
    /\ \E primitives \in TexturePrimLists, textures_delta \in TextureDeltas :
           PaintBegin(primitives, textures_delta, 1, <<>>)
    /\ UNCHANGED pending

NextTexture == PaintCallTexture \/ PaintSteps

SpecTexture == Init /\ [][NextTexture]_vars

----------------------------------------------------------------------------
(* SpecCanvas: clip rectangles and pixels-per-point *)

CanvasPrims ==
    {MeshPrim(r, Triangle("A", <<0, 1>>, <<1, 0>>, <<1, 1>>)) : r \in {<<0, 2>>, <<1, 3>>}}
        \cup {CallbackPrim(r, <<1, 2>>) : r \in {<<0, 2>>, <<1, 3>>}}

CanvasPrimLists == SeqsUpTo(CanvasPrims, MaxPrims)

\* pixels_per_point of the caller
Dpis == {1, 2}

PaintCallCanvas ==
    /\ pc = "idle"
    /\ \E primitives \in CanvasPrimLists, textures_delta \in TextureDeltas, dpi \in Dpis :
           PaintBegin(primitives, textures_delta, dpi, <<>>)
    /\ UNCHANGED pending

NextCanvas == PaintCallCanvas \/ PaintSteps

SpecCanvas == Init /\ [][NextCanvas]_vars

----------------------------------------------------------------------------
(* SpecMesh: one mesh primitive of any size, its texture uploaded *)

\* the index list of triangles <<a, a + 1, a + 2>> for the starts a
RECURSIVE Strip(_)
Strip(starts) ==
    IF starts = <<>>
    THEN <<>>
    ELSE <<Head(starts), Head(starts) + 1, Head(starts) + 2>> \o Strip(Tail(starts))

InputMeshes ==
    {[texture_id |-> "A",
      vertices |-> [i \in 1 .. n |-> Vertex(uvs[i])],
      indices |-> Strip(starts)] :
        n \in 0 .. MaxVerts,
        uvs \in [1 .. MaxVerts -> {<<0, 0>>, <<0, 1>>}],
        starts \in SeqsUpTo(0 .. MaxVerts - 3, MaxTris)}

\* Mesh::is_valid: every index names a vertex
IsValid(mesh) == \A k \in 1 .. Len(mesh.indices) : mesh.indices[k] < Len(mesh.vertices)

\* the tessellator emits no vertex that no triangle uses
Referenced(mesh) ==
    {mesh.indices[k] : k \in 1 .. Len(mesh.indices)} = 0 .. Len(mesh.vertices) - 1

MeshCalls ==
    {<<MeshPrim(<<0, 4>>, m)>> : m \in {x \in InputMeshes : IsValid(x) /\ Referenced(x)}}

PaintCallMesh ==
    /\ pc = "idle"
    /\ \E primitives \in MeshCalls :
           PaintBegin(primitives, [set |-> <<SetEntry("A", RedTexel)>>, free |-> <<"A">>], 1, <<>>)
    /\ UNCHANGED pending

NextMesh == PaintCallMesh \/ PaintSteps

SpecMesh == Init /\ [][NextMesh]_vars

----------------------------------------------------------------------------
(* SpecRunner: the frame runner, run and paint *)

RunDeltas ==
    {[set |-> a, free |-> f] : a \in SeqsUpTo(SetEntries, 1), f \in SeqsUpTo(TextureIds, 1)}

RunShapes == SeqsUpTo({MeshPrim(<<0, 4>>, Triangle("A", <<0, 1>>, <<1, 0>>, <<1, 1>>)),
                       CallbackPrim(<<0, 4>>, <<1, 3>>)}, 1)

\* TexturesDelta::append
append(older, newer) == [set |-> older.set \o newer.set, free |-> older.free \o newer.free]

\* Context::tessellate: one clipped primitive per shape, in order
tessellate(shapes, dpi) == shapes

\* run(input, logic): the shapes replace the pending ones, the delta is appended
Run ==
    /\ pc = "idle"
    /\ err = "none"
    /\ Len(pending.log) < MaxRuns
    /\ \E shapes \in RunShapes, textures_delta \in RunDeltas :
        /\ pending' = [shapes |-> shapes,
                       textures_delta |-> append(pending.textures_delta, textures_delta),
                       log |-> Append(pending.log, textures_delta)]
        /\ UNCHANGED <<cpu_fix, paints, canvas, pc, call, draws, err, last, col>>

\* paint(canvas): takes the pending shapes and delta, tessellates, paints
Paint ==
    /\ PaintBegin(tessellate(pending.shapes, 1), pending.textures_delta, 1, pending.log)
    /\ pending' = NoPending

NextRunner == Run \/ Paint \/ PaintSteps

SpecRunner == Init /\ [][NextRunner]_vars

----------------------------------------------------------------------------
(* SpecColor: paint_mesh's conversion of one vertex color *)

Channels == {0, 1, 64, 128, 255}

InitColor ==
    /\ cpu_fix = FALSE
    /\ Start
    /\ \E c \in Channels \X Channels \X Channels \X Channels :
           col = [phase |-> "in", c |-> c, out |-> <<0, 0, 0, 0>>]

Convert ==
    /\ col.phase = "in"
    /\ col' = [col EXCEPT !.phase = "out", !.out = straight_color(col.c)]
    /\ UNCHANGED <<cpu_fix, paints, canvas, pc, call, draws, err, pending, last>>

SpecColor == InitColor /\ [][Convert]_vars

----------------------------------------------------------------------------
(* Claims about the texture cache, under SpecCache *)

\* C1: a patch keeps the prior image's width and height, leaves every pixel
\* outside the patch rectangle as it was, and sets every pixel inside it to
\* the patch's pixel, whatever was there (no blending).
C1_PatchReplacesRectangle ==
    (last.op = "patch" /\ err = "none") =>
        LET old == last.prior[last.tex].image
            new == paints[last.tex].image
            pos == last.delta.pos
            patch == last.delta.image
        IN  /\ new.w = old.w
            /\ new.h = old.h
            /\ \A xy \in Coords(old.w, old.h) :
                   new.px[xy] = IF InRect(xy, PatchRect(pos, patch))
                                THEN patch.px[<<xy[1] - pos[1], xy[2] - pos[2]>>]
                                ELSE old.px[xy]

\* C1 happens: a 4x4 red image patched with a 2x2 white one at (1,1)
C1_RedBaseWhitePatch ==
    /\ last.op = "patch"
    /\ err = "none"
    /\ last.prior["A"].image = Uniform(4, 4, Red)
    /\ last.delta = PatchDelta(Uniform(2, 2, White), 1, 1)
    /\ paints["A"].image.w = 4
    /\ paints["A"].image.h = 4
    /\ paints["A"].image.px[<<1, 1>>] = White
    /\ paints["A"].image.px[<<2, 2>>] = White
    /\ paints["A"].image.px[<<0, 0>>] = Red

\* C5: a patch of a handle that has no entry fails with MissingTextureForPatch
\* and creates no entry: the cache is as it was.
C5_PatchNeedsEntry ==
    (last.op = "patch" /\ last.tex \notin DOMAIN last.prior) =>
        /\ err = "MissingTextureForPatch"
        /\ paints = last.prior
        /\ last.tex \notin DOMAIN paints

\* C5 happens: a patch was uploaded for a handle with no entry
C5_PatchOfMissingHandle ==
    /\ last.op = "patch"
    /\ last.tex \notin DOMAIN last.prior
    /\ err = "MissingTextureForPatch"

----------------------------------------------------------------------------
(* Claims about one paint call, under Spec and SpecTexture *)

\* the cache after every upload of a delta, in order
RECURSIVE SetAll(_, _)
SetAll(p, sets) ==
    IF sets = <<>>
    THEN p
    ELSE SetAll(set_texture(p, Head(sets).id, Head(sets).delta).paints, Tail(sets))

SetIds(delta) == {delta.set[i].id : i \in 1 .. Len(delta.set)}
FreeIds(delta) == {delta.free[i] : i \in 1 .. Len(delta.free)}

\* C2: within one paint call every upload of the delta is in the cache, and
\* no free of it is, while the primitives are drawn; every free is applied
\* by the time the call returns. A handle uploaded and freed by the same
\* delta is in the cache at every draw and out of it at the return.
C2_UploadsThenDrawsThenFrees ==
    /\ pc = "prims" => paints = SetAll(call.before, call.delta.set)
    /\ \A k \in 1 .. Len(draws) :
           /\ draws[k].cached = DOMAIN SetAll(call.before, call.delta.set)
           /\ SetIds(call.delta) \subseteq draws[k].cached
    /\ pc = "done" => \A t \in FreeIds(call.delta) : t \notin DOMAIN paints

\* C2 happens: a handle uploaded and freed by one delta was looked up and
\* drawn twice, and the call is about to return without it
C2_UploadedDrawnFreed ==
    /\ pc = "done"
    /\ "A" \in SetIds(call.delta) \cap FreeIds(call.delta)
    /\ "A" \notin DOMAIN call.before
    /\ Len(draws) = 2
    /\ \A k \in 1 .. 2 : draws[k].texture_id = "A" /\ draws[k].lookup /\ draws[k].drawn
    /\ "A" \notin DOMAIN paints

\* C4: a free removes the entry of its handle and leaves every other entry
\* as it was; a freed handle has no entry until a full image is uploaded for
\* it; and a lookup of a handle that has no entry fails with UnknownTexture.
C4_FreedHandleIsUnknown ==
    /\ last.op = "free" =>
           /\ last.tex \notin DOMAIN paints
           /\ DOMAIN paints = DOMAIN last.prior \ {last.tex}
           /\ \A t \in DOMAIN paints : paints[t] = last.prior[t]
    /\ \A t \in last.freed : t \notin DOMAIN paints
    /\ \A k \in 1 .. Len(draws) :
           draws[k].lookup =>
               /\ draws[k].drawn <=> draws[k].texture_id \in draws[k].cached
               /\ ~draws[k].drawn => err = "UnknownTexture" /\ pc = "panicked"

\* C4 happens: a mesh looked up a handle freed by an earlier call, while the
\* other handle kept its entry
C4_LookupAfterFree ==
    /\ pc = "panicked"
    /\ err = "UnknownTexture"
    /\ draws # <<>>
    /\ draws[Len(draws)].texture_id \in last.freed
    /\ draws[Len(draws)].lookup
    /\ "A" \in DOMAIN paints
    /\ call.delta.set = <<>>

FirstZero(e) == e.first_uv # <<>> /\ e.first_uv[1] = <<0, 0>>

\* C6 as claimed: a drawn mesh's handle is in the cache unless its first
\* vertex has uv (0,0), and then the mesh is drawn white with no lookup
C6_AsClaimed ==
    \A k \in 1 .. Len(draws) :
        draws[k].kind = "mesh" =>
            /\ draws[k].drawn => (draws[k].texture_id \in draws[k].cached \/ FirstZero(draws[k]))
            /\ FirstZero(draws[k]) => draws[k].white /\ ~draws[k].lookup /\ draws[k].drawn

\* C6, amended: with the CPU mesh fix built in, a mesh whose first vertex has
\* uv (0,0), or that has no vertex, is drawn white with no lookup; every
\* other mesh, and every mesh without the fix, is looked up and drawn only
\* if its handle is in the cache.
C6_WhiteOnlyWithCpuFix ==
    \A k \in 1 .. Len(draws) :
        draws[k].kind = "mesh" =>
            LET exempt == cpu_fix /\ (FirstZero(draws[k]) \/ draws[k].first_uv = <<>>)
            IN  /\ exempt => draws[k].white /\ ~draws[k].lookup /\ draws[k].drawn
                /\ ~exempt =>
                       /\ ~draws[k].white
                       /\ draws[k].lookup
                       /\ draws[k].drawn <=> draws[k].texture_id \in draws[k].cached

\* C6 happens: a mesh with first uv (0,0) and a handle the cache lacks was
\* drawn white
C6_WhiteDrawOfUnknownHandle ==
    /\ cpu_fix
    /\ draws # <<>>
    /\ draws[Len(draws)].kind = "mesh"
    /\ FirstZero(draws[Len(draws)])
    /\ draws[Len(draws)].texture_id \notin draws[Len(draws)].cached
    /\ draws[Len(draws)].white
    /\ draws[Len(draws)].drawn

----------------------------------------------------------------------------
(* Claims about the frame runner, under SpecRunner *)

\* the deltas of a sequence of runs, appended in order
RECURSIVE Accumulated(_)
Accumulated(runs) ==
    IF runs = <<>>
    THEN NoDelta
    ELSE append(Accumulated(SubSeq(runs, 1, Len(runs) - 1)), runs[Len(runs)])

RECURSIVE FreeAll(_, _)
FreeAll(p, ids) ==
    IF ids = <<>> THEN p ELSE FreeAll(free_texture(p, Head(ids)), Tail(ids))

\* C3: the pending delta is the deltas of every run since the last paint,
\* appended in order; the paint takes all of it and leaves the pending delta
\* and shapes empty; when the paint returns, the cache is the cache before
\* it with every upload of those runs applied and then every free.
C3_RunsAccumulateUntilPaint ==
    /\ pending.textures_delta = Accumulated(pending.log)
    /\ pc # "idle" =>
           /\ call.delta = Accumulated(call.log)
           /\ pending = NoPending
    /\ pc = "done" =>
           /\ paints = FreeAll(SetAll(call.before, call.delta.set), call.delta.free)
           /\ DOMAIN paints = (DOMAIN call.before \cup SetIds(call.delta)) \ FreeIds(call.delta)

\* C3 happens: run 1 produced {upload A}, run 2 {upload B, free A}, and the
\* paint that followed leaves exactly B in the cache
C3_UploadA_UploadBFreeA ==
    /\ pc = "done"
    /\ call.before = EmptyMap
    /\ call.log = <<[set |-> <<SetEntry("A", RedTexel)>>, free |-> <<>>],
                    [set |-> <<SetEntry("B", RedTexel)>>, free |-> <<"A">>]>>
    /\ DOMAIN paints = {"B"}
    /\ pending = NoPending

----------------------------------------------------------------------------
(* Claims about vertex colors, under SpecColor *)

\* C7 as claimed: alpha 0 converts to (0,0,0,0) whatever r, g and b are;
\* above 0 every channel is the channel divided by alpha, in 8 bits, and
\* alpha is passed through.
C7_AsClaimed ==
    col.phase = "out" =>
        /\ col.c[4] = 0 => col.out = <<0, 0, 0, 0>>
        /\ col.c[4] > 0 =>
               /\ \A i \in 1 .. 3 : col.out[i] = Min(255, (col.c[i] * 255) \div col.c[4])
               /\ col.out[4] = col.c[4]

----------------------------------------------------------------------------
(* Claims about mesh splitting, under SpecMesh *)

\* the maximal runs of indices whose vertices are all untextured or all textured
UVRuns(mesh) ==
    1 + Cardinality({k \in 2 .. Len(mesh.indices) :
                        ZeroUV(mesh.vertices[mesh.indices[k] + 1])
                            # ZeroUV(mesh.vertices[mesh.indices[k - 1] + 1])})

IndicesLocal ==
    \A k \in 1 .. Len(draws) :
        \A j \in 1 .. Len(draws[k].indices) : draws[k].indices[j] < draws[k].nverts

----------------------------------------------------------------------------
(* Claims about the canvas, under SpecCanvas *)

\* C9: every primitive is drawn under its own clip rectangle, mapped by the
\* matrix in effect and cut to the clip the canvas had before the call, and
\* under no earlier primitive's; between primitives and after the call the
\* canvas clip is the clip before the call, with nothing left saved.
C9_ClipScopedToPrimitive ==
    /\ \A k \in 1 .. Len(draws) :
           draws[k].clip = Intersect(call.canvas0.clip,
                                     Device(draws[k].m_clip, call.prims[draws[k].prim].clip_rect))
    /\ canvas.clip = call.canvas0.clip
    /\ canvas.stack = <<>>

\* C9 happens: a mesh clipped to <<0, 2>> and then a callback clipped to
\* <<1, 3>> were drawn, the second under <<1, 3>>
C9_SecondClipIsItsOwn ==
    /\ pc = "done"
    /\ call.dpi = 1
    /\ Len(draws) = 2
    /\ draws[1].kind = "mesh"
    /\ draws[1].clip = <<0, 2>>
    /\ draws[2].kind = "callback"
    /\ draws[2].clip = <<1, 3>>
    /\ canvas.clip = <<0, CanvasW>>

\* C10 as claimed: a callback is clipped, translated and replayed under the
\* matrix the canvas had before the call, translated by rect.min, whatever
\* was painted before it; and once the primitives are painted the canvas
\* matrix is the matrix before the call.
C10_TransformScoped ==
    /\ \A k \in 1 .. Len(draws) :
           draws[k].kind = "callback" =>
               /\ draws[k].m_clip = call.canvas0.matrix
               /\ draws[k].matrix = Translate(call.canvas0, call.prims[draws[k].prim].rect[1]).matrix
    /\ pc \in {"free", "done"} => canvas.matrix = call.canvas0.matrix

=============================================================================
